---- MODULE Spec2Model ----
(***************************************************************************)
(* Order ingestion and case ticketing of streamline-mern-server.           *)
(*                                                                         *)
(* The model follows POST /cases/create-case (src/routes/cases.js) and the *)
(* createTicket service it calls (src/utils/ticketService.js) statement by *)
(* statement: every awaited database statement is one step of a request,   *)
(* followed by the synchronous JavaScript that runs until the next await.  *)
(*                                                                         *)
(* Text is modelled as a sequence of one-character strings, so that the    *)
(* regular expressions, replace, split, includes and startsWith of the     *)
(* source operate on characters as they do in JavaScript.  Error messages  *)
(* and template texts are sequences of words; includes() on them is the    *)
(* same contiguous-subsequence test.                                       *)
(***************************************************************************)
EXTENDS Integers, Sequences, FiniteSets, TLC

NULL == "null"

(***************************************************************************)
(* Text helpers (JavaScript String methods on sequences).                  *)
(***************************************************************************)

\* s.substring(i-1, j) with 1-based inclusive bounds
Sub(s, i, j) == IF i > j THEN <<>> ELSE SubSeq(s, i, j)

\* s.startsWith(p)
StartsWith(s, p) == Len(s) >= Len(p) /\ Sub(s, 1, Len(p)) = p

\* p occurs in s at position i
OccursAt(s, p, i) == i + Len(p) - 1 <= Len(s) /\ Sub(s, i, i + Len(p) - 1) = p

\* s.includes(p)
Includes(s, p) == \E i \in 1..(Len(s) + 1) : OccursAt(s, p, i)

\* s.replace(/c/g, d) for a single character c
RECURSIVE ReplaceChar(_, _, _)
ReplaceChar(s, c, d) ==
  IF s = <<>> THEN <<>>
  ELSE <<(IF Head(s) = c THEN d ELSE Head(s))>> \o ReplaceChar(Tail(s), c, d)

\* s.replace(/p/g, "") for a literal p: leftmost, non-overlapping occurrences
RECURSIVE RemoveAll(_, _)
RemoveAll(s, p) ==
  IF s = <<>> THEN <<>>
  ELSE IF OccursAt(s, p, 1) THEN RemoveAll(Sub(s, Len(p) + 1, Len(s)), p)
  ELSE <<Head(s)>> \o RemoveAll(Tail(s), p)

\* s.split(c): the fields between the occurrences of the character c
RECURSIVE SplitFrom(_, _, _)
SplitFrom(s, c, cur) ==
  IF s = <<>> THEN <<cur>>
  ELSE IF Head(s) = c THEN <<cur>> \o SplitFrom(Tail(s), c, <<>>)
  ELSE SplitFrom(Tail(s), c, Append(cur, Head(s)))

Split(s, c) == SplitFrom(s, c, <<>>)

\* s.toUpperCase() on the letters the model uses
UpperOf(c) ==
  CASE c = "u" -> "U"
    [] c = "l" -> "L"
    [] c = "a" -> "A"
    [] c = "x" -> "X"
    [] OTHER -> c

ToUpperCase(s) == [i \in 1..Len(s) |-> UpperOf(s[i])]

\* [A-Z] and [0-9], over the characters the model's texts are written in
UpperLetters == {"A", "B", "C", "D", "H", "I", "L", "R", "S", "U", "X"}
Digits == {"0", "1", "2", "3", "4", "5"}

(***************************************************************************)
(* The embedded-SKU scan of the note:                                      *)
(*   /(--[A-Z0-9]+\-[A-Z]+\-[A-Z0-9\.]+--)/g                               *)
(* No character class contains "-", so a greedy run never has to give a    *)
(* character back: the match at a position is decided by the maximal runs. *)
(***************************************************************************)

\* the end of the maximal run of characters of class cls that starts at i
\* (i - 1 when s[i] is not in cls)
RECURSIVE RunEnd(_, _, _)
RunEnd(s, i, cls) ==
  IF i <= Len(s) /\ s[i] \in cls THEN RunEnd(s, i + 1, cls) ELSE i - 1

\* the last position of the match of skuPattern that starts at i, or 0
SkuMatchEnd(s, i) ==
  IF ~OccursAt(s, <<"-", "-">>, i) THEN 0
  ELSE LET a == RunEnd(s, i + 2, UpperLetters \cup Digits) IN
    IF a < i + 2 \/ ~OccursAt(s, <<"-">>, a + 1) THEN 0
    ELSE LET b == RunEnd(s, a + 2, UpperLetters) IN
      IF b < a + 2 \/ ~OccursAt(s, <<"-">>, b + 1) THEN 0
      ELSE LET c == RunEnd(s, b + 2, UpperLetters \cup Digits \cup {"."}) IN
        IF c < b + 2 \/ ~OccursAt(s, <<"-", "-">>, c + 1) THEN 0
        ELSE c + 2

\* note.match(skuPattern): all matches, left to right, non-overlapping
RECURSIVE MatchSkus(_, _)
MatchSkus(s, i) ==
  IF i > Len(s) THEN <<>>
  ELSE LET e == SkuMatchEnd(s, i) IN
    IF e = 0 THEN MatchSkus(s, i + 1)
    ELSE <<Sub(s, i, e)>> \o MatchSkus(s, e + 1)

\* sku.startsWith("--") of the line-item collection
IsEncoded(sku) == StartsWith(sku, <<"-", "-">>)

(***************************************************************************)
(* processEncodedSku, the synchronous decoding part.  A tooth location is  *)
(* the text in word form: <<"Upper", ", ", "Lower">> is "Upper, Lower".    *)
(***************************************************************************)

\* sku.replace(/\./g, "~").replace(/--/g, "").replace(/-/g, ".")
NormalizeSku(sku) ==
  ReplaceChar(RemoveAll(ReplaceChar(sku, ".", "~"), <<"-", "-">>), "-", ".")

SkuParts(sku) == Split(NormalizeSku(sku), ".")

\* the switch on upperLower itself: a lower-case code falls to the default
ToothLocationCaseSensitive(upperLower) ==
  CASE upperLower = <<"U">> -> <<"Upper">>
    [] upperLower = <<"L">> -> <<"Lower">>
    [] upperLower \in {<<"U", "L">>, <<"L", "U">>} -> <<"Upper", ", ", "Lower">>
    [] OTHER -> <<>>

\* the switch on upperLower.toUpperCase()
ToothLocation(upperLower) ==
  LET u == ToUpperCase(upperLower) IN
  CASE u = <<"U">> -> <<"Upper">>
    [] u = <<"L">> -> <<"Lower">>
    [] u \in {<<"U", "L">>, <<"L", "U">>} -> <<"Upper", ", ", "Lower">>
    [] OTHER -> <<>>

ToothQty(upperLower) ==
  IF ToUpperCase(upperLower) \in {<<"U", "L">>, <<"L", "U">>} THEN 2 ELSE 1

\* parts.length < 3 makes processEncodedSku return before any insert
Decodable(sku) == Len(SkuParts(sku)) >= 3

\* the field values processEncodedSku inserts for a decodable SKU
DecodeSku(sku) ==
  LET parts == SkuParts(sku) IN
  [ product |-> ReplaceChar(parts[1], "~", "."),
    toothLocation |-> ToothLocation(parts[2]),
    qty |-> ToothQty(parts[2]),
    shade |-> parts[3] ]

(***************************************************************************)
(* Inputs: the orders a client may post.                                   *)
(***************************************************************************)

NumReqs == 2      \* requests in flight at the same time
MaxDay == 1       \* the clock runs over the days 0..MaxDay
MaxFaults == 2    \* statements that fail in one run
MaxTickets == 1   \* tickets a run creates by calling createTicket directly
MaxNumbered == 3  \* tickets a run creates where their numbers are examined
MaxCallers == 6   \* calls of executeGraphQLQuery in one run

Reqs == 1..NumReqs

SkuUL == <<"-", "-", "A", "1", "-", "U", "L", "-",
           "R", "3", "3", "3", "3", "0", ".", "1", "-", "-">>
SkuL == <<"-", "-", "B", "2", "-", "l", "-", "C", ".", "4", "-", "-">>
SkuU == <<"-", "-", "B", "2", "-", "U", "-", "D", "4", "-", "-">>
SkuLU == <<"-", "-", "B", "2", "-", "L", "u", "-", "D", "5", "-", "-">>
SkuOther == <<"-", "-", "B", "2", "-", "X", "-", "D", ".", "5", "-", "-">>
SkuBad == <<"-", "-", "X", "-", "-">>
SkuRush == <<"R", "3", "3", "3", "3">>

Name1 == "88675969"
Name2 == "88675970"

\* customer: null is the record with present = FALSE
NoCustomer == [present |-> FALSE, firstName |-> "", lastName |-> "", email |-> NULL]

Customers ==
  { NoCustomer,
    [present |-> TRUE, firstName |-> "", lastName |-> "", email |-> "pat@x.com"],
    [present |-> TRUE, firstName |-> "Ann", lastName |-> "", email |-> NULL],
    [present |-> TRUE, firstName |-> "Ann", lastName |-> "", email |-> "pat@x.com"] }

TopEmails == {NULL, "pat@x.com"}

Notes == {<<>>, <<"H", "I">>, <<"H", "I", " ">> \o SkuUL \o <<"!">>}

ItemRush == [sku |-> SkuRush, title |-> <<"R">>]
ItemBad == [sku |-> SkuBad, title |-> <<"X">>]
ItemL == [sku |-> SkuL, title |-> <<"B">>]
ItemU == [sku |-> SkuU, title |-> <<"B">>]
ItemLU == [sku |-> SkuLU, title |-> <<"B">>]
ItemOther == [sku |-> SkuOther, title |-> <<"B">>]
ItemPlain == [sku |-> <<"A", "B">>, title |-> <<"B">>]
ItemRushWord == [sku |-> <<"X", "R", "U", "S", "H">>, title |-> <<"B">>]

\* lineItems: absent is the empty list
ItemLists == {<<>>, <<ItemRush>>, <<ItemBad>>, <<ItemL>>, <<ItemBad, ItemL>>}

\* shippingLines: absent is the empty list
ShippingLists ==
  {<<>>, <<[code |-> <<"S", "T", "D">>, title |-> <<"R", "U", "S", "H">>]>>}

LinePlain == [code |-> <<"S", "T", "D">>, title |-> <<>>]
LineRushCode == [code |-> <<"R", "U", "S", "H">>, title |-> <<>>]

\* every combination under the first order name, and under a second name
\* orders with or without an encoded SKU in the note, and with no line item
\* or with the line items of the other upper/lower codes
Orders ==
  [ name : {Name1}, customer : Customers, email : TopEmails, note : Notes,
    lineItems : ItemLists, shippingLines : ShippingLists ]
  \cup
  [ name : {Name2}, customer : {c \in Customers : c.present /\ c.email # NULL},
    email : {NULL}, note : Notes \ {<<>>},
    lineItems : {<<>>, <<ItemU, ItemLU, ItemOther>>},
    shippingLines : {<<>>} ]

\* orders with a rush item or a rush shipping line at either end of its
\* list, under the second name
RushListOrders ==
  [ name : {Name2},
    customer : {c \in Customers : c.email # NULL /\ c.firstName # ""},
    email : {NULL}, note : {<<"H", "I">>},
    lineItems : {<<ItemPlain>>, <<ItemPlain, ItemRushWord>>,
                 <<ItemRushWord, ItemPlain>>},
    shippingLines : {<<LinePlain>>, <<LinePlain, LineRushCode>>,
                     <<LineRushCode, LinePlain>>} ]

\* req.user, set by the JWT middleware
AuthUsers == {[UserId |-> 7, UserName |-> "lab7"]}

(***************************************************************************)
(* extractCaseDataFromOrder.                                               *)
(***************************************************************************)

\* !v for a string (null and "" are falsy) and for a text (null is <<>>)
Falsy(v) == v = NULL \/ v = ""
Empty(t) == t = <<>>

\* a || b
Or(a, b) == IF Falsy(a) THEN b ELSE a

FirstNameOf(o) == IF o.customer.present THEN Or(o.customer.firstName, "") ELSE ""
LastNameOf(o) == IF o.customer.present THEN Or(o.customer.lastName, "") ELSE ""
EmailOf(o) ==
  Or(Or(IF o.customer.present THEN o.customer.email ELSE NULL, o.email), NULL)

\* instructions: the note, then "\n" sku "\n" title of every line item
RECURSIVE ItemsText(_)
ItemsText(items) ==
  IF items = <<>> THEN <<>>
  ELSE <<"\n">> \o Head(items).sku \o <<"\n">> \o Head(items).title
       \o ItemsText(Tail(items))

InstructionsOf(o) == o.note \o ItemsText(o.lineItems)

RushSku(sku) == sku = SkuRush \/ Includes(sku, <<"R", "U", "S", "H">>)

RushLine(line) ==
  \/ ~Empty(line.code) /\ Includes(line.code, <<"R", "U", "S", "H">>)
  \/ ~Empty(line.title) /\ Includes(line.title, <<"R", "U", "S", "H">>)

\* lineItems.edges.forEach: isRush after the items, from its value before
RECURSIVE RushAfterItems(_, _)
RushAfterItems(items, isRush) ==
  IF items = <<>> THEN isRush
  ELSE RushAfterItems(Tail(items), IF RushSku(Head(items).sku) THEN TRUE
                                   ELSE isRush)

\* shippingLines.forEach: isRush after the lines, from its value before
RECURSIVE RushAfterLines(_, _)
RushAfterLines(lines, isRush) ==
  IF lines = <<>> THEN isRush
  ELSE RushAfterLines(Tail(lines), IF RushLine(Head(lines)) THEN TRUE
                                   ELSE isRush)

\* only the first line item and the first shipping line are looked at
IsRushOfFirstOnly(o) ==
  \/ o.lineItems # <<>> /\ RushSku(o.lineItems[1].sku)
  \/ o.shippingLines # <<>> /\ RushLine(o.shippingLines[1])

\* let isRush = false; the items' loop; if (!isRush && orderData.shippingLines)
\* the lines' loop
IsRushOf(o) ==
  LET afterItems == RushAfterItems(o.lineItems, FALSE) IN
  IF ~afterItems THEN RushAfterLines(o.shippingLines, afterItems)
  ELSE afterItems

MsgMissingEmail == <<"Missing", "customer", "email">>
MsgMissingName ==
  <<"Missing", "customer", "first", "and", "last", "name.",
    "One", "must", "be", "present.">>
MsgNoInstructions ==
  <<"Failed", "to", "generate", "instructions.",
    "No", "note", "or", "line", "items">>
MsgExtractPrefix == <<"Failed", "to", "extract", "case", "data:">>

\* the extractor without its check of the names
ExtractErrorNamesUnchecked(o) ==
  IF Falsy(EmailOf(o)) THEN MsgExtractPrefix \o MsgMissingEmail
  ELSE IF Empty(InstructionsOf(o)) THEN MsgExtractPrefix \o MsgNoInstructions
  ELSE <<>>

\* the message of the Error the extractor throws, or <<>> when it returns
ExtractError(o) ==
  IF Falsy(EmailOf(o)) THEN MsgExtractPrefix \o MsgMissingEmail
  ELSE IF Falsy(FirstNameOf(o)) /\ Falsy(LastNameOf(o))
    THEN MsgExtractPrefix \o MsgMissingName
  ELSE IF Empty(InstructionsOf(o)) THEN MsgExtractPrefix \o MsgNoInstructions
  ELSE <<>>

\* the value the extractor returns
ExtractCaseData(o, userId) ==
  [ caseId |-> o.name, firstName |-> FirstNameOf(o), lastName |-> LastNameOf(o),
    email |-> EmailOf(o), userId |-> userId, isRush |-> IsRushOf(o),
    orderNumber |-> o.name ]

\* the catch block's choice of the HTTP status
ErrorStatus(message) == IF Includes(message, <<"Missing">>) THEN 400 ELSE 500

ErrorCode(message) ==
  IF Includes(message, <<"Missing">>) THEN "MISSING_CASE_DATA" ELSE "DATABASE_ERROR"

\* processOrderLineItems: the SKUs found in the note and in the line items
NoteSkus(o) == IF Empty(o.note) THEN <<>> ELSE MatchSkus(o.note, 1)

RECURSIVE LineItemSkus(_)
LineItemSkus(items) ==
  IF items = <<>> THEN <<>>
  ELSE (IF IsEncoded(Head(items).sku) THEN <<Head(items).sku>> ELSE <<>>)
       \o LineItemSkus(Tail(items))

(***************************************************************************)
(* The data store.  A table is a set of rows.  No statement of the source  *)
(* and no file of the repository declares a uniqueness constraint, so an   *)
(* insert never fails for a duplicate key.  rid is the row's identity in   *)
(* the table (its row number); columns that no modelled                    *)
(* statement reads back (CaseRXInstructions, the fixed customer, ship-to   *)
(* and carrier ids) are left out of the rows.                              *)
(***************************************************************************)

EmptyTables ==
  [ cases |-> {}, caseTxns |-> {}, items |-> {}, teeth |-> {},
    tickets |-> {}, details |-> {}, logs |-> {} ]

\* the required-by offset without the rush case
DaysRequiredNoRush(isRush) == 14

\* const daysRequired = caseData.isRush ? 7 : 14
DaysRequired(isRush) == IF isRush THEN 7 ELSE 14

\* DATEADD(day, 14, GETDATE()) of Case_Date_Estimated_Return
EstimatedReturnDays == 14

\* the row insertCase writes; GETDATE() is the statement's time
CaseRow(rid, cd, now) ==
  [ rid |-> rid, caseId |-> cd.caseId, userId |-> 8437,
    received |-> now, requiredBy |-> now + DaysRequired(cd.isRush),
    estimatedReturn |-> now + EstimatedReturnDays,
    firstName |-> cd.firstName, lastName |-> cd.lastName,
    patientNum |-> cd.orderNumber, email |-> cd.email,
    statusCode |-> 10, labId |-> 52, isRush |-> (IF cd.isRush THEN 1 ELSE 0),
    rxReviewed |-> NULL, shadeReviewed |-> NULL, caseType |-> 0 ]

\* the row insertCaseTransaction writes
CaseTxnRow(rid, cd, user) ==
  [ rid |-> rid, caseId |-> cd.caseId, employeeId |-> user.UserName,
    userId |-> user.UserId, statusCode |-> 10, carrierId |-> 102 ]

\* the row insertCaseItem writes (the three shade columns hold one value)
CaseItemRow(id, caseId, sku) ==
  LET d == DecodeSku(sku) IN
  [ id |-> id, caseId |-> caseId, sku |-> sku, name |-> d.product,
    tooth |-> d.toothLocation, qty |-> d.qty, shade |-> d.shade ]

\* the row number identifies a row of dbo.[Case]
CaseKey(c) == c.rid

\* updateCaseAfterLineItems applied to the rows whose key is in upd
ApplyUpdate(cases, upd) ==
  { IF CaseKey(c) \in upd
      THEN [c EXCEPT !.rxReviewed = "Y", !.shadeReviewed = "Y",
                     !.caseType = 1, !.labId = 52]
      ELSE c : c \in cases }

\* existingCase.length > 1 in place of > 0
CaseExistsTwice(cases, caseId) ==
  \E c, d \in cases : c # d /\ c.caseId = caseId /\ d.caseId = caseId

\* checkCaseExists: existingCase && existingCase.length > 0
CaseExists(cases, caseId) == \E c \in cases : c.caseId = caseId

(***************************************************************************)
(* replaceTokens.  A text is a sequence of words; a token is the marker    *)
(* "@@" followed by the pieces of its name, so that one token can be a     *)
(* prefix of another as in the source.  The table keeps the source's order *)
(* for the tokens the model's texts use.                                   *)
(***************************************************************************)

\* s.replace(new RegExp(p, "g"), v) for a literal p
RECURSIVE ReplaceAll(_, _, _)
ReplaceAll(s, p, v) ==
  IF s = <<>> THEN <<>>
  ELSE IF OccursAt(s, p, 1) THEN v \o ReplaceAll(Sub(s, Len(p) + 1, Len(s)), p, v)
  ELSE <<Head(s)>> \o ReplaceAll(Tail(s), p, v)

\* the early return without its test for the marker
NoTokensEmptyOnly(text) == Empty(text)

\* the early return: !text || text === '' || !text.includes('@@')
NoTokens(text) == Empty(text) \/ ~Includes(text, <<"@@">>)

Word(v) == IF Falsy(v) THEN <<>> ELSE <<v>>

\* the columns the case-data query joins to the case from v_user, Status
\* and StatusGroup
Joined ==
  [Fax |-> "555", Status_Doctor_View |-> "Received", Status_Group_Name |-> "Intake"]

\* data.Fax ? `${data.Fax}@rapidfax.com` : ''
FaxEmail(fax) == IF Falsy(fax) THEN <<>> ELSE <<fax, "@rapidfax.com">>

\* the replacements object, in the order Object.entries walks it.  A token
\* is the marker "@@" and the pieces of its name: @@DOCTOR_FAX_EMAIL is
\* @@DOCTOR_FAX followed by _EMAIL, and @@STATUS_GROUP is @@STATUS followed
\* by _GROUP
TokenTable(data, caseId, ticketNumber) ==
  << <<(<<"@@", "CASE_ID">>), <<caseId>> >>,
     <<(<<"@@", "TICKET_NUMBER">>), ticketNumber>>,
     <<(<<"@@", "PATIENT_FIRST">>), Word(data.firstName)>>,
     <<(<<"@@", "PATIENT_LAST">>), Word(data.lastName)>>,
     <<(<<"@@", "DOCTOR_FAX">>), Word(Joined.Fax)>>,
     <<(<<"@@", "DOCTOR_FAX", "_EMAIL">>), FaxEmail(Joined.Fax)>>,
     <<(<<"@@", "STATUS", "_GROUP">>), Word(Joined.Status_Group_Name)>>,
     <<(<<"@@", "STATUS">>), Word(Joined.Status_Doctor_View)>>,
     <<(<<"@@", "SHOPIFY_EMAIL">>), Word(data.email)>> >>

RECURSIVE ApplyTokens(_, _)
ApplyTokens(text, table) ==
  IF table = <<>> THEN text
  ELSE ApplyTokens(ReplaceAll(text, Head(table)[1], Head(table)[2]), Tail(table))

\* replaceTokens after its query returned the rows `rows`
ReplaceTokens(text, rows, caseId, ticketNumber) ==
  IF rows = {} THEN text
  ELSE LET data == CHOOSE c \in rows : TRUE IN
       ApplyTokens(text, TokenTable(data, caseId, ticketNumber))

(***************************************************************************)
(* createTicket, the synchronous parts.                                    *)
(***************************************************************************)

SupportAddress == <<"support@streamlinedental.com">>

\* the destructuring defaults of options (null text is <<>>, null id is 0)
DefaultOptions(caseId, userId) ==
  [ caseId |-> caseId, userId |-> userId, templateId |-> 0,
    ticketStatus |-> "Closed", scheduleStatusId |-> 0, assignedToUserId |-> 0,
    fromAddress |-> <<>>, toAddress |-> <<>>, ccAddress |-> <<>>,
    bccAddress |-> <<>>, subject |-> <<>>, message |-> <<>>,
    overrideSubject |-> <<>>, overrideMessage |-> <<>> ]

\* the fallback call without its ticketStatus
FallbackTicketOptionsNoStatus(caseId, userId) ==
  [DefaultOptions(caseId, userId) EXCEPT !.templateId = 1363]

\* the options processOrderLineItems passes when it found no SKU
FallbackTicketOptions(caseId, userId) ==
  [DefaultOptions(caseId, userId) EXCEPT !.templateId = 1363,
                                         !.ticketStatus = "Open"]

\* templateData before the template is read
InitialTemplateData(o) ==
  [ subject |-> o.subject, message |-> o.message,
    fromAddress |-> o.fromAddress, toAddress |-> o.toAddress,
    ccAddress |-> o.ccAddress, bccAddress |-> o.bccAddress,
    scheduleStatusId |-> o.scheduleStatusId ]

\* a || b on texts
OrText(a, b) == IF Empty(a) THEN b ELSE a

\* the option in place of the template default
JoinAddressesOptionOnly(a, b) == IF Empty(b) THEN a ELSE b

\* [a, b].filter(Boolean).join(";")
JoinAddresses(a, b) ==
  IF Empty(a) THEN b ELSE IF Empty(b) THEN a ELSE a \o <<";">> \o b

\* templateData after the template query returned the rows `rows`
MergeTemplate(o, rows) ==
  IF rows = {} THEN InitialTemplateData(o)
  ELSE LET t == CHOOSE x \in rows : TRUE IN
    [ subject |-> OrText(o.subject, t.subject),
      message |-> OrText(o.message, t.message),
      fromAddress |-> OrText(o.fromAddress, t.Default_From_Address),
      toAddress |-> JoinAddresses(t.Default_to_Address, o.toAddress),
      ccAddress |-> JoinAddresses(t.Default_CC_Address, o.ccAddress),
      bccAddress |-> JoinAddresses(t.Default_BCC_Address, o.bccAddress),
      scheduleStatusId |->
        IF o.ticketStatus = "Scheduled"
          THEN (IF o.scheduleStatusId # 0 THEN o.scheduleStatusId
                ELSE t.Default_Scheduled_Status_ID)
          ELSE o.scheduleStatusId ]

Max(S) == CHOOSE m \in S : \A x \in S : x <= m

\* the same query without its WHERE clause
NextTicketNoAnyCase(tickets, caseId) ==
  LET nums == {t.ticketNumber : t \in tickets} IN
  (IF nums = {} THEN 0 ELSE Max(nums)) + 1

\* SELECT COALESCE(MAX(Ticket_Number), 0) + 1 ... WHERE case_id = :caseId
NextTicketNo(tickets, caseId) ==
  LET nums == {t.ticketNumber : t \in {x \in tickets : x.caseId = caseId}} IN
  (IF nums = {} THEN 0 ELSE Max(nums)) + 1

\* `${caseId}-${newTicketNo}-1`
TicketNoDisplay(caseId, no) == <<caseId, "-", ToString(no), "-", "1">>

(***************************************************************************)
(* State.                                                                  *)
(*   clock   the day GETDATE() returns                                     *)
(*   db      the committed tables                                          *)
(*   nextId  the identity counters of Case_Items, case_ticket and          *)
(*           case_ticket_detail (SCOPE_IDENTITY), and the row numbers of   *)
(*           dbo.[Case] and CaseTransaction: a table is a bag of rows, the *)
(*           row number rid tells two rows of equal columns apart          *)
(*   faults  the statements that have failed so far                        *)
(* Email_template and v_user are only read: each read returns one of the   *)
(* contents such a table may have.                                         *)
(*   req     per request: where its handler stands (pc), its transaction,  *)
(*           its locals, its uncommitted writes and its response           *)
(***************************************************************************)
VARIABLES clock, db, nextId, faults, req, activeRequests, call

\* the state of the import route and of createTicket
server == <<clock, db, nextId, faults, req>>

\* the state of the order-source client
client == <<activeRequests, call>>

vars == <<clock, db, nextId, faults, req, activeRequests, call>>

\* RATE_LIMIT_CONFIG.maxConcurrentRequests
maxConcurrentRequests == 5

Callers == 1..MaxCallers

\* a call of executeGraphQLQuery that has not been made yet; incremented and
\* decremented count the activeRequests++ and activeRequests-- it has run
IdleCall == [pc |-> "idle", incremented |-> 0, decremented |-> 0]

Template1363 ==
  [ email_template_id |-> 1363,
    subject |-> <<"Review", "@@", "CASE_ID">>,
    message |-> <<"No", "items", "on", "@@", "TICKET_NUMBER">>,
    Default_From_Address |-> <<>>, Default_to_Address |-> <<>>,
    Default_CC_Address |-> <<>>, Default_BCC_Address |-> <<>>,
    Default_Scheduled_Status_ID |-> 0 ]

LabUser == [userId |-> 8437, EmailAddr |-> <<"lab@x.com">>]

\* the same user with no e-mail address on record
LabUserNoEmail == [userId |-> 8437, EmailAddr |-> <<>>]

\* a template with default addresses
Template20 ==
  [ email_template_id |-> 20,
    subject |-> <<"Case", "@@", "CASE_ID">>,
    message |-> <<"Hello", "world">>,
    Default_From_Address |-> <<"lab@x.com">>,
    Default_to_Address |-> <<"a@x.com">>,
    Default_CC_Address |-> <<>>, Default_BCC_Address |-> <<"f@x.com">>,
    Default_Scheduled_Status_ID |-> 0 ]

\* what Email_template and v_user may hold
TemplateTables == {{}, {Template1363, Template20}}
UserTables == {{}, {LabUser}}

NoCaseData ==
  [ caseId |-> "", firstName |-> "", lastName |-> "", email |-> NULL,
    userId |-> 0, isRush |-> FALSE, orderNumber |-> "" ]

NoUser == [UserId |-> 0, UserName |-> ""]

\* createTicket's locals, and what the call has done so far: the template
\* rows it read, templateData as merged before Step 4, the case-data
\* queries replaceTokens issued, and the texts replaceTokens gave back as
\* they were because its query failed or found no row
NoTicket ==
  [ o |-> DefaultOptions("", 0), td |-> InitialTemplateData(DefaultOptions("", 0)),
    no |-> 0, field |-> 0, statusCode |-> 0, ticketId |-> 0, detailId |-> 0,
    rows |-> {}, merged |-> InitialTemplateData(DefaultOptions("", 0)),
    queries |-> 0, unres |-> {} ]

\* what the request was given (recorded when it arrives, never changed);
\* failed holds the places (pc) of the request's statements that failed,
\* failedSkus the SKUs' failed statements as <<position of the SKU, place>>
NothingGiven == [order |-> FALSE, email |-> FALSE, name |-> FALSE, text |-> FALSE]

\* the lists of the posted order, kept where the rush detection is examined
NoLists == [skus |-> <<>>, shippingLines |-> <<>>]

IdleReq ==
  [ pc |-> "idle", txn |-> "none", user |-> NoUser, cd |-> NoCaseData,
    noteSkus |-> <<>>, lineItemSkus |-> <<>>, idx |-> 0, itemId |-> 0,
    err |-> <<>>, status |-> 0, code |-> "", message |-> <<>>,
    pend |-> EmptyTables, upd |-> {}, tk |-> NoTicket,
    given |-> NothingGiven, snap |-> EmptyTables,
    fault5 |-> FALSE, faultCommit |-> FALSE, failed |-> {}, failedSkus |-> {},
    own |-> FALSE, lists |-> NoLists ]

Init ==
  /\ clock = 0
  /\ db = EmptyTables
  /\ nextId = [case |-> 1, txn |-> 1, item |-> 1, ticket |-> 1, detail |-> 1]
  /\ faults = 0
  /\ req = [r \in Reqs |-> IdleReq]
  /\ activeRequests = 0
  /\ call = [c \in Callers |-> IdleCall]

(***************************************************************************)
(* Transactions: a statement of request r reads the committed rows and r's *)
(* own uncommitted ones; commit publishes r's writes, rollback drops them. *)
(***************************************************************************)

Visible(r) ==
  [ cases |-> ApplyUpdate(db.cases \cup req[r].pend.cases, req[r].upd),
    caseTxns |-> db.caseTxns \cup req[r].pend.caseTxns,
    items |-> db.items \cup req[r].pend.items,
    teeth |-> db.teeth \cup req[r].pend.teeth,
    tickets |-> db.tickets \cup req[r].pend.tickets,
    details |-> db.details \cup req[r].pend.details,
    logs |-> db.logs \cup req[r].pend.logs ]

\* the tables after transaction.commit()
Committed(r) == Visible(r)

\* the tables after transaction.rollback()
RolledBack(r) == db

AllSkus(q) == q.noteSkus \o q.lineItemSkus

\* the index of the first decodable SKU at or after k (Len + 1 when none)
RECURSIVE NextDecodable(_, _)
NextDecodable(skus, k) ==
  IF k > Len(skus) THEN k
  ELSE IF Decodable(skus[k]) THEN k ELSE NextDecodable(skus, k + 1)

\* the loops of processOrderLineItems from SKU k on: processEncodedSku
\* returns at once for an undecodable SKU; the first decodable one issues
\* its insert; after the last SKU the update of the case is issued
AfterSku(q, k) ==
  LET j == NextDecodable(AllSkus(q), k) IN
  IF j <= Len(AllSkus(q)) THEN [q EXCEPT !.pc = "insItem", !.idx = j]
  ELSE [q EXCEPT !.pc = "update", !.idx = 0]

\* noteSkus.length === 0 && lineItemSkus.length === 0
NoSkusFound(q) == Len(q.noteSkus) = 0 /\ Len(q.lineItemSkus) = 0

(***************************************************************************)
(* createTicket between its awaits.                                        *)
(***************************************************************************)

TokenFields == <<"fromAddress", "toAddress", "subject", "message">>

\* Step 5 of createTicket: the default from address, then either the
\* user-email query (no to address) or the case-status query
AfterTokenFields(q) ==
  LET td == [q.tk.td EXCEPT !.fromAddress = OrText(@, SupportAddress)] IN
  [q EXCEPT !.tk.td = td, !.tk.field = 0,
            !.pc = IF Empty(td.toAddress) THEN "ctEmail" ELSE "ctStatus"]

\* Step 4 from field k on: replaceTokens returns at once for a text without
\* "@@"; the first text with one issues the case-data query
RECURSIVE ResolveFrom(_, _)
ResolveFrom(q, k) ==
  IF k > Len(TokenFields) THEN AfterTokenFields(q)
  ELSE IF NoTokens(q.tk.td[TokenFields[k]]) THEN ResolveFrom(q, k + 1)
  ELSE [q EXCEPT !.pc = "ctTokens", !.tk.field = k]

\* the call: the options are destructured and the first query is issued
StartTicket(q, o) ==
  [q EXCEPT !.tk = [NoTicket EXCEPT !.o = o, !.td = InitialTemplateData(o),
                                    !.merged = InitialTemplateData(o)],
            !.pc = IF o.templateId # 0 THEN "ctTemplate" ELSE "ctNumber"]

\* the overrides used only where templateData has no text
ApplyOverridesAsDefaults(td, o) ==
  [td EXCEPT !.subject = IF Empty(@) THEN o.overrideSubject ELSE @,
             !.message = IF Empty(@) THEN o.overrideMessage ELSE @]

\* if (overrideSubject) ...; if (overrideMessage) ...
ApplyOverrides(td, o) ==
  [td EXCEPT !.subject = OrText(o.overrideSubject, @),
             !.message = OrText(o.overrideMessage, @)]

TicketRow(id, tk) ==
  [ id |-> id, caseId |-> tk.o.caseId, ticketNumber |-> tk.no,
    status |-> tk.o.ticketStatus, scheduleStatusId |-> tk.td.scheduleStatusId ]

DetailRow(id, tk) ==
  [ id |-> id, ticketId |-> tk.ticketId,
    assignedTo |-> IF tk.o.assignedToUserId # 0 THEN tk.o.assignedToUserId
                   ELSE tk.o.userId,
    detailNumber |-> 1, action |-> "Email",
    fromAddress |-> tk.td.fromAddress, toAddress |-> tk.td.toAddress,
    ccAddress |-> tk.td.ccAddress, bccAddress |-> tk.td.bccAddress,
    templateId |-> tk.o.templateId, subject |-> tk.td.subject,
    message |-> tk.td.message, createdBy |-> tk.o.userId,
    caseStatusCode |-> tk.statusCode ]

(***************************************************************************)
(* POST /cases/create-case.                                                *)
(***************************************************************************)

\* what the posted order holds
GivenOf(o) ==
  [ order |-> TRUE,
    email |-> \/ o.customer.present /\ ~Falsy(o.customer.email)
              \/ ~Falsy(o.email),
    name |-> /\ o.customer.present
             /\ ~Falsy(o.customer.firstName) \/ ~Falsy(o.customer.lastName),
    text |-> ~Empty(o.note) \/ ~Empty(o.lineItems) ]

\* res.status(...).json(...): the handler is over
Respond(q, status, code, message) ==
  [q EXCEPT !.pc = "done", !.status = status, !.code = code,
            !.message = message, !.tk = NoTicket]

\* the handler starts on a request of its own: sequelize.transaction()
Arrived(r, u) ==
  [IdleReq EXCEPT !.txn = "open", !.user = u, !.snap = db]

\* sequelize.transaction(), then a body without orderData: the handler
\* answers 400 and returns
ReceiveNoOrder(r) ==
  /\ req[r].pc \in {"idle", "done"}
  /\ \E u \in AuthUsers :
       req' = [req EXCEPT ![r] =
                 Respond(Arrived(r, u), 400, "MISSING_CASE_DATA",
                         <<"orderData", "is", "required">>)]
  /\ UNCHANGED <<clock, db, nextId, faults, client>>

\* what the handler derives from the posted order before its first query
Parsed(o) ==
  [ err |-> ExtractError(o), cd |-> ExtractCaseData(o, 0),
    noteSkus |-> NoteSkus(o), lineItemSkus |-> LineItemSkus(o.lineItems),
    given |-> GivenOf(o), lists |-> NoLists ]

\* the same, with the order's line-item SKUs and shipping lines kept
ParsedWithLists(o) ==
  [Parsed(o) EXCEPT !.lists =
     [ skus |-> [i \in 1..Len(o.lineItems) |-> o.lineItems[i].sku],
       shippingLines |-> o.shippingLines ]]

ParsedOrders == {Parsed(o) : o \in Orders}

\* sequelize.transaction(), then the extractor throws: the catch block
\* issues the rollback
ReceiveInvalidOf(r, posted) ==
  /\ req[r].pc \in {"idle", "done"}
  /\ \E u \in AuthUsers, p \in posted :
       /\ p.err # <<>>
       /\ req' = [req EXCEPT ![r] =
                    [Arrived(r, u) EXCEPT !.pc = "rollback", !.err = p.err,
                                          !.given = p.given]]
  /\ UNCHANGED <<clock, db, nextId, faults, client>>

\* sequelize.transaction(), then the extractor returns: checkCaseExists is
\* issued
ReceiveOrderOf(r, posted) ==
  /\ req[r].pc \in {"idle", "done"}
  /\ \E u \in AuthUsers, p \in posted :
       /\ p.err = <<>>
       /\ req' = [req EXCEPT ![r] =
                    [Arrived(r, u) EXCEPT !.pc = "check",
                                          !.cd = [p.cd EXCEPT !.userId = u.UserId],
                                          !.noteSkus = p.noteSkus,
                                          !.lineItemSkus = p.lineItemSkus,
                                          !.given = p.given,
                                          !.lists = p.lists]]
  /\ UNCHANGED <<clock, db, nextId, faults, client>>

ReceiveInvalid(r) == ReceiveInvalidOf(r, ParsedOrders)

ReceiveOrder(r) == ReceiveOrderOf(r, ParsedOrders)

\* checkCaseExists returns
CheckCaseExists(r) ==
  /\ req[r].pc = "check"
  /\ req' = [req EXCEPT ![r].pc =
               IF CaseExists(Visible(r).cases, req[r].cd.caseId)
                 THEN "rollbackDuplicate" ELSE "insCase"]
  /\ UNCHANGED <<clock, db, nextId, faults, client>>

\* the duplicate's transaction.rollback(), then the 400 answer
RollbackDuplicate(r) ==
  /\ req[r].pc = "rollbackDuplicate"
  /\ db' = RolledBack(r)
  /\ req' = [req EXCEPT ![r] =
               Respond([req[r] EXCEPT !.txn = "rollback", !.pend = EmptyTables,
                                      !.upd = {}],
                       400, "CASE_ALREADY_EXISTS",
                       <<"Case", "has", "already", "been", "imported">>)]
  /\ UNCHANGED <<clock, nextId, faults, client>>

\* insertCase; GETDATE() is the day the statement runs, which is not
\* before the day of any earlier statement
InsertCase(r) ==
  /\ req[r].pc = "insCase"
  /\ \E now \in clock..MaxDay :
       /\ clock' = now
       /\ req' = [req EXCEPT ![r].pc = "insTxn",
                             ![r].pend.cases =
                               @ \cup {CaseRow(nextId.case, req[r].cd, now)}]
  /\ nextId' = [nextId EXCEPT !.case = @ + 1]
  /\ UNCHANGED <<db, faults, client>>

\* insertCaseTransaction, then processOrderLineItems up to its first await
InsertCaseTransaction(r) ==
  /\ req[r].pc = "insTxn"
  /\ LET q == [req[r] EXCEPT
                 !.pend.caseTxns =
                   @ \cup {CaseTxnRow(nextId.txn, req[r].cd, req[r].user)}]
     IN req' = [req EXCEPT ![r] =
                  IF NoSkusFound(q)
                    THEN StartTicket(q, FallbackTicketOptions(q.cd.caseId,
                                                              q.user.UserId))
                    ELSE AfterSku(q, 1)]
  /\ nextId' = [nextId EXCEPT !.txn = @ + 1]
  /\ UNCHANGED <<clock, db, faults, client>>

\* insertCaseItem with the identity read from the wrong place of the result:
\* caseItemId is undefined and no tooth row is inserted
InsertCaseItemNoIdentity(r) ==
  /\ req[r].pc = "insItem"
  /\ LET q == req[r]
         row == CaseItemRow(nextId.item, q.cd.caseId, AllSkus(q)[q.idx])
         q1 == [q EXCEPT !.pend.items = @ \cup {row}, !.itemId = row.id]
     IN req' = [req EXCEPT ![r] = AfterSku(q1, q.idx + 1)]
  /\ nextId' = [nextId EXCEPT !.item = @ + 1]
  /\ UNCHANGED <<clock, db, faults, client>>

\* insertCaseItem of processEncodedSku; caseItemId is the new identity
InsertCaseItem(r) ==
  /\ req[r].pc = "insItem"
  /\ LET q == req[r]
         row == CaseItemRow(nextId.item, q.cd.caseId, AllSkus(q)[q.idx])
         q1 == [q EXCEPT !.pend.items = @ \cup {row}, !.itemId = row.id]
     IN req' = [req EXCEPT ![r] =
                  IF Includes(row.tooth, <<"Upper">>)
                    THEN [q1 EXCEPT !.pc = "insUpper"]
                  ELSE IF Includes(row.tooth, <<"Lower">>)
                    THEN [q1 EXCEPT !.pc = "insLower"]
                  ELSE AfterSku(q1, q.idx + 1)]
  /\ nextId' = [nextId EXCEPT !.item = @ + 1]
  /\ UNCHANGED <<clock, db, faults, client>>

ItemTooth(q) == CHOOSE i \in q.pend.items : i.id = q.itemId

\* insertCaseItemTooth for "Upper"
InsertToothUpper(r) ==
  /\ req[r].pc = "insUpper"
  /\ LET q == [req[r] EXCEPT !.pend.teeth =
                 @ \cup {[caseItemId |-> req[r].itemId, itemTooth |-> "Upper"]}]
     IN req' = [req EXCEPT ![r] =
                  IF Includes(ItemTooth(q).tooth, <<"Lower">>)
                    THEN [q EXCEPT !.pc = "insLower"]
                    ELSE AfterSku(q, q.idx + 1)]
  /\ UNCHANGED <<clock, db, nextId, faults, client>>

\* insertCaseItemTooth for "Lower"
InsertToothLower(r) ==
  /\ req[r].pc = "insLower"
  /\ LET q == [req[r] EXCEPT !.pend.teeth =
                 @ \cup {[caseItemId |-> req[r].itemId, itemTooth |-> "Lower"]}]
     IN req' = [req EXCEPT ![r] = AfterSku(q, q.idx + 1)]
  /\ UNCHANGED <<clock, db, nextId, faults, client>>

\* updateCaseAfterLineItems: every row of the case the transaction sees
UpdateCaseAfterLineItems(r) ==
  /\ req[r].pc = "update"
  /\ req' = [req EXCEPT ![r].pc = "commit",
                        ![r].upd = {CaseKey(c) : c \in {x \in Visible(r).cases :
                                                    x.caseId = req[r].cd.caseId}}]
  /\ UNCHANGED <<clock, db, nextId, faults, client>>

\* transaction.commit(), then the 201 answer
Commit(r) ==
  /\ req[r].pc = "commit"
  /\ db' = Committed(r)
  /\ req' = [req EXCEPT ![r] =
               Respond([req[r] EXCEPT !.txn = "commit", !.pend = EmptyTables,
                                      !.upd = {}],
                       201, "", <<"Case", "created", "successfully">>)]
  /\ UNCHANGED <<clock, nextId, faults, client>>

\* the catch block: transaction.rollback(), then the error answer
RollbackError(r) ==
  /\ req[r].pc = "rollback"
  /\ db' = RolledBack(r)
  /\ req' = [req EXCEPT ![r] =
               Respond([req[r] EXCEPT !.txn = "rollback", !.pend = EmptyTables,
                                      !.upd = {}],
                       ErrorStatus(req[r].err), ErrorCode(req[r].err),
                       req[r].err)]
  /\ UNCHANGED <<clock, nextId, faults, client>>

(***************************************************************************)
(* createTicket inside the caller's transaction, one awaited statement     *)
(* after the other.                                                        *)
(***************************************************************************)

\* Step 2: the Email_template row of templateId
CtTemplate(r) ==
  /\ req[r].pc = "ctTemplate"
  /\ \E templates \in TemplateTables :
       LET o == req[r].tk.o
           rows == {t \in templates : t.email_template_id = o.templateId}
       IN req' = [req EXCEPT ![r].tk.td = MergeTemplate(o, rows),
                             ![r].tk.merged = MergeTemplate(o, rows),
                             ![r].tk.rows = rows,
                             ![r].pc = "ctNumber"]
  /\ UNCHANGED <<clock, db, nextId, faults, client>>

\* Step 3: the next ticket number, then Step 4 up to its first query
CtNumber(r) ==
  /\ req[r].pc = "ctNumber"
  /\ LET q == [req[r] EXCEPT !.tk.no =
                 NextTicketNo(Visible(r).tickets, req[r].tk.o.caseId)]
     IN req' = [req EXCEPT ![r] = ResolveFrom(q, 1)]
  /\ UNCHANGED <<clock, db, nextId, faults, client>>

\* Step 4: the case-data query of replaceTokens for one of the four texts
CtTokens(r) ==
  /\ req[r].pc = "ctTokens"
  /\ LET q == req[r]
         f == TokenFields[q.tk.field]
         rows == {c \in Visible(r).cases : c.caseId = q.tk.o.caseId}
         text == ReplaceTokens(q.tk.td[f], rows, q.tk.o.caseId,
                               TicketNoDisplay(q.tk.o.caseId, q.tk.no))
     IN req' = [req EXCEPT ![r] =
                  ResolveFrom([q EXCEPT !.tk.td[f] = text,
                                        !.tk.queries = @ + 1,
                                        !.tk.unres =
                                          IF rows = {} THEN @ \cup {f} ELSE @],
                              q.tk.field + 1)]
  /\ UNCHANGED <<clock, db, nextId, faults, client>>

\* the v_case / v_user join of Step 5
UserEmails(cases, users, caseId) ==
  { u.EmailAddr : u \in { x \in users : \E c \in cases :
                            c.caseId = caseId /\ c.userId = x.userId } }

\* Step 5: the to address from the case's user, else the support address;
\* v_user holds one of `tables`
CtUserEmailOf(r, tables) ==
  /\ req[r].pc = "ctEmail"
  /\ \E users \in tables :
       LET found == UserEmails(Visible(r).cases, users, req[r].tk.o.caseId)
       IN req' = [req EXCEPT ![r].pc = "ctStatus",
                             ![r].tk.td.toAddress =
                               IF found # {} THEN CHOOSE e \in found : TRUE
                               ELSE SupportAddress]
  /\ UNCHANGED <<clock, db, nextId, faults, client>>

CtUserEmail(r) == CtUserEmailOf(r, UserTables)

\* Step 6: the case's status code (0 is null), then the overrides
CtStatus(r) ==
  /\ req[r].pc = "ctStatus"
  /\ LET rows == {c \in Visible(r).cases : c.caseId = req[r].tk.o.caseId}
     IN req' = [req EXCEPT ![r].pc = "ctInsTicket",
                           ![r].tk.statusCode =
                             IF rows # {} THEN (CHOOSE c \in rows : TRUE).statusCode
                             ELSE 0,
                           ![r].tk.td = ApplyOverrides(@, req[r].tk.o)]
  /\ UNCHANGED <<clock, db, nextId, faults, client>>

\* Step 7: insert case_ticket
CtInsertTicket(r) ==
  /\ req[r].pc = "ctInsTicket"
  /\ LET tk == [req[r].tk EXCEPT !.ticketId = nextId.ticket]
     IN req' = [req EXCEPT ![r].pc = "ctInsDetail", ![r].tk = tk,
                           ![r].pend.tickets = @ \cup {TicketRow(nextId.ticket, tk)}]
  /\ nextId' = [nextId EXCEPT !.ticket = @ + 1]
  /\ UNCHANGED <<clock, db, faults, client>>

\* Step 8: insert case_ticket_detail; then either the commit of the
\* transaction createTicket opened, or createTicket returns to
\* processOrderLineItems, which issues the update of the case
CtInsertDetail(r) ==
  /\ req[r].pc = "ctInsDetail"
  /\ req' = [req EXCEPT ![r].pc = IF req[r].own THEN "ctCommit" ELSE "update",
                        ![r].tk = IF req[r].own
                                    THEN [@ EXCEPT !.detailId = nextId.detail]
                                    ELSE NoTicket,
                        ![r].pend.details =
                          @ \cup {DetailRow(nextId.detail, req[r].tk)}]
  /\ nextId' = [nextId EXCEPT !.detail = @ + 1]
  /\ UNCHANGED <<clock, db, faults, client>>

\* one statement of request r
Step(r) ==
  \/ CheckCaseExists(r) \/ RollbackDuplicate(r) \/ InsertCase(r)
  \/ InsertCaseTransaction(r) \/ InsertCaseItem(r) \/ InsertToothUpper(r)
  \/ InsertToothLower(r) \/ UpdateCaseAfterLineItems(r) \/ Commit(r)
  \/ RollbackError(r) \/ CtTemplate(r) \/ CtNumber(r) \/ CtTokens(r)
  \/ CtUserEmail(r) \/ CtStatus(r) \/ CtInsertTicket(r) \/ CtInsertDetail(r)

\* a request arrives
Receive(r) == ReceiveNoOrder(r) \/ ReceiveInvalid(r) \/ ReceiveOrder(r)

\* the server handles one request after the other and no statement fails
Next == Receive(1) \/ Step(1)

Spec == Init /\ [][Next]_vars

\* the orders posted to the rush detection: the lists of RushListOrders
\* and, under the first name, no line item or the rush code alone
RushOrders ==
  {ParsedWithLists(o) : o \in RushListOrders \cup
     {x \in Orders : /\ x.name = Name1
                     /\ x.customer.present /\ x.customer.email # NULL
                     /\ x.customer.firstName # ""
                     /\ x.email = NULL
                     /\ x.lineItems \in {<<>>, <<ItemRush>>}}}

NextRush ==
  ReceiveInvalidOf(1, RushOrders) \/ ReceiveOrderOf(1, RushOrders) \/ Step(1)

SpecRush == Init /\ [][NextRush]_vars

\* the orders posted concurrently: both order names, the e-mail address
\* with the customer, no shipping line, no line item
ConcurrentOrders ==
  {Parsed(o) : o \in {x \in Orders : /\ x.customer.present
                                     /\ x.customer.email # NULL
                                     /\ x.email = NULL
                                     /\ x.shippingLines = <<>>
                                     /\ x.lineItems = <<>>}}

\* a request arrives while others are in flight
ReceiveConcurrent(r) ==
  /\ req[r].pc = "idle"
  /\ \A q \in Reqs : q < r => req[q].pc # "idle"
  /\ \/ ReceiveNoOrder(r)
     \/ ReceiveInvalidOf(r, ConcurrentOrders)
     \/ ReceiveOrderOf(r, ConcurrentOrders)

\* requests interleave at their awaits; no statement fails
NextConcurrent == \E r \in Reqs : ReceiveConcurrent(r) \/ Step(r)

SpecConcurrent == Init /\ [][NextConcurrent]_vars

(***************************************************************************)
(* Failing statements.  A statement that fails changes no row and leaves   *)
(* the transaction usable; the handler that catches the rejection depends  *)
(* on where the await stands.                                              *)
(***************************************************************************)

MsgDatabase == <<"Connection", "lost">>

\* the statements processOrderLineItems issues, createTicket's included
InLineItems(pc) ==
  pc \in {"insItem", "insUpper", "insLower", "update", "ctTemplate", "ctNumber",
          "ctTokens", "ctEmail", "ctStatus", "ctInsTicket", "ctInsDetail"}

\* insertCaseTransaction awaited inside a try block that logs and goes on
OnFailureTxnLogged(pc) ==
  CASE pc \in {"check", "insCase"} -> "rollback"
    [] pc \in {"insItem", "insUpper", "insLower"} -> "nextSku"
    [] pc = "ctTokens" -> "sameText"
    [] pc \in {"ctTemplate", "ctNumber", "ctEmail", "ctStatus", "ctInsTicket",
               "ctInsDetail", "update", "insTxn"} -> "commit"
    [] pc = "commit" -> "answer"
    [] OTHER -> "none"

\* updateCaseAfterLineItems awaited outside processOrderLineItems' try block
OnFailureUpdateThrows(pc) ==
  CASE pc \in {"check", "insCase", "insTxn", "update"} -> "rollback"
    [] pc \in {"insItem", "insUpper", "insLower"} -> "nextSku"
    [] pc = "ctTokens" -> "sameText"
    [] pc \in {"ctTemplate", "ctNumber", "ctEmail", "ctStatus", "ctInsTicket",
               "ctInsDetail"} -> "commit"
    [] pc = "commit" -> "answer"
    [] OTHER -> "none"

\* the catch block that receives the rejection of the statement at pc
OnFailure(pc) ==
  CASE pc \in {"check", "insCase", "insTxn"} -> "rollback"
    [] pc \in {"insItem", "insUpper", "insLower"} -> "nextSku"
    [] pc = "ctTokens" -> "sameText"
    [] pc \in {"ctTemplate", "ctNumber", "ctEmail", "ctStatus", "ctInsTicket",
               "ctInsDetail", "update"} -> "commit"
    [] pc = "commit" -> "answer"
    [] OTHER -> "none"

\* one more statement fails
OneMoreFault ==
  /\ faults < MaxFaults
  /\ faults' = faults + 1

\* the handler's catch: the rollback is issued
FailStatement(r) ==
  /\ OneMoreFault
  /\ OnFailure(req[r].pc) = "rollback"
  /\ req' = [req EXCEPT ![r].pc = "rollback", ![r].err = MsgDatabase,
                        ![r].fault5 = @ \/ InLineItems(req[r].pc),
                        ![r].failed = @ \cup {req[r].pc}]
  /\ UNCHANGED <<clock, db, nextId, client>>

\* processEncodedSku without its catch: the rejection reaches the catch of
\* processOrderLineItems, and the handler goes on to the commit
FailSkuStops(r) ==
  /\ OneMoreFault
  /\ OnFailure(req[r].pc) = "nextSku"
  /\ req' = [req EXCEPT ![r].pc = "commit", ![r].idx = 0,
                        ![r].fault5 = @ \/ InLineItems(req[r].pc),
                        ![r].failed = @ \cup {req[r].pc},
                        ![r].failedSkus = @ \cup {<<req[r].idx, req[r].pc>>}]
  /\ UNCHANGED <<clock, db, nextId, client>>

\* processEncodedSku's catch: the SKU is given up, the loop goes on
FailSku(r) ==
  /\ OneMoreFault
  /\ OnFailure(req[r].pc) = "nextSku"
  /\ req' = [req EXCEPT ![r] =
               AfterSku([req[r] EXCEPT !.fault5 = @ \/ InLineItems(req[r].pc),
                                       !.failed = @ \cup {req[r].pc},
                                       !.failedSkus = @ \cup {<<req[r].idx, req[r].pc>>}],
                        req[r].idx + 1)]
  /\ UNCHANGED <<clock, db, nextId, client>>

\* replaceTokens without its catch: the rejection reaches createTicket's
\* catch, which rolls back the transaction it opened and rethrows
FailTokensRaises(r) ==
  /\ OneMoreFault
  /\ OnFailure(req[r].pc) = "sameText"
  /\ req' = [req EXCEPT ![r] =
               [req[r] EXCEPT
                  !.fault5 = @ \/ InLineItems(req[r].pc),
                  !.failed = @ \cup {req[r].pc},
                  !.tk.queries = @ + 1,
                  !.tk.unres = @ \cup {TokenFields[req[r].tk.field]},
                  !.pc = IF req[r].own THEN "done" ELSE "commit",
                  !.txn = IF req[r].own THEN "rollback" ELSE @,
                  !.pend = IF req[r].own THEN EmptyTables ELSE @,
                  !.code = IF req[r].own THEN "THROWN" ELSE @]]
  /\ UNCHANGED <<clock, db, nextId, client>>

\* replaceTokens' catch: the text is returned as it was
FailTokens(r) ==
  /\ OneMoreFault
  /\ OnFailure(req[r].pc) = "sameText"
  /\ req' = [req EXCEPT ![r] =
               ResolveFrom([req[r] EXCEPT
                              !.fault5 = @ \/ InLineItems(req[r].pc),
                              !.failed = @ \cup {req[r].pc},
                              !.tk.queries = @ + 1,
                              !.tk.unres = @ \cup {TokenFields[req[r].tk.field]}],
                           req[r].tk.field + 1)]
  /\ UNCHANGED <<clock, db, nextId, client>>

\* createTicket's catch rethrows (the transaction is the caller's), and
\* processOrderLineItems' catch logs: the handler goes on to the commit
FailLineItems(r) ==
  /\ OneMoreFault
  /\ ~req[r].own
  /\ OnFailure(req[r].pc) = "commit"
  /\ req' = [req EXCEPT ![r].pc = "commit", ![r].tk = NoTicket,
                        ![r].fault5 = @ \/ InLineItems(req[r].pc),
                        ![r].failed = @ \cup {req[r].pc}]
  /\ UNCHANGED <<clock, db, nextId, client>>

\* transaction.commit() rejects: finished is set, so the catch block does
\* not roll back; the store has applied the whole transaction or none of it
FailCommit(r) ==
  /\ OneMoreFault
  /\ OnFailure(req[r].pc) = "answer"
  /\ db' \in {Committed(r), RolledBack(r)}
  /\ req' = [req EXCEPT ![r] =
               Respond([req[r] EXCEPT !.txn = "commit", !.pend = EmptyTables,
                                      !.upd = {}, !.faultCommit = TRUE,
                                      !.failed = @ \cup {req[r].pc}],
                       ErrorStatus(MsgDatabase), ErrorCode(MsgDatabase),
                       MsgDatabase)]
  /\ UNCHANGED <<clock, nextId, client>>

Fail(r) ==
  \/ FailStatement(r) \/ FailSku(r) \/ FailTokens(r) \/ FailLineItems(r)
  \/ FailCommit(r)

\* the orders posted while statements fail: one order name, the e-mail
\* address with the customer, no shipping line
FaultOrders ==
  {Parsed(o) : o \in {x \in Orders : /\ x.name = Name1
                                     /\ x.customer.present
                                     /\ x.email = NULL
                                     /\ x.shippingLines = <<>>}}

ReceiveFault(r) ==
  \/ ReceiveNoOrder(r)
  \/ ReceiveInvalidOf(r, FaultOrders)
  \/ ReceiveOrderOf(r, FaultOrders)

\* one request after the other; any statement may fail
NextFault == ReceiveFault(1) \/ Step(1) \/ Fail(1)

SpecFault == Init /\ [][NextFault]_vars

(***************************************************************************)
(* createTicket called on its own (transaction = null): it opens the       *)
(* transaction, runs the same steps and commits.                           *)
(***************************************************************************)

SubjectOption == <<"Hi", "@@", "PATIENT_FIRST">>
MessageOption == <<"Dear", "patient">>
OverrideSubject == <<"Re", "@@", "CASE_ID">>
OverrideMessage == <<"See", "@@", "CASE_ID", "@@", "TICKET_NUMBER">>

\* the options of the direct calls: no template, the fallback template or
\* the template with default addresses; the from and to addresses, the
\* copy addresses, the texts and the overrides given or not
TicketOptions ==
  { [DefaultOptions(Name1, 7) EXCEPT
       !.templateId = t, !.fromAddress = ft[1], !.toAddress = ft[2],
       !.ccAddress = cc[1], !.bccAddress = cc[2],
       !.subject = sm[1], !.message = sm[2],
       !.overrideSubject = ov[1], !.overrideMessage = ov[2]] :
     t \in {0, 20, 1363},
     ft \in {<< <<>>, <<>> >>, << <<"me@x.com">>, <<"b@x.com">> >>},
     cc \in {<< <<>>, <<>> >>, << <<"d@x.com">>, <<"e@x.com">> >>},
     sm \in {<< <<>>, <<>> >>, <<SubjectOption, MessageOption>>},
     ov \in {<< <<>>, <<>> >>, <<OverrideSubject, OverrideMessage>>} }

\* createTicket(options): sequelize.transaction(), then the first query;
\* the options are drawn from `options`, and at most `most` tickets are made
CallCreateTicketOf(r, options, most) ==
  /\ req[r].pc \in {"idle", "done"}
  /\ nextId.ticket <= most
  /\ \E o \in options :
       req' = [req EXCEPT ![r] =
                 StartTicket([Arrived(r, NoUser) EXCEPT !.own = TRUE], o)]
  /\ UNCHANGED <<clock, db, nextId, faults, client>>

CallCreateTicket(r) == CallCreateTicketOf(r, TicketOptions, MaxTickets)

\* txn.commit(), then createTicket returns the new detail id
CtCommit(r) ==
  /\ req[r].pc = "ctCommit"
  /\ db' = Committed(r)
  /\ req' = [req EXCEPT ![r].pc = "done", ![r].txn = "commit",
                        ![r].pend = EmptyTables, ![r].upd = {},
                        ![r].code = "RETURNED"]
  /\ UNCHANGED <<clock, nextId, faults, client>>

\* the orders posted between the direct calls: one order name, with an
\* encoded SKU in its note or with no note at all
TicketOrders ==
  {Parsed(o) : o \in {x \in Orders : /\ x.name = Name1
                                     /\ x.customer.present
                                     /\ x.customer.email # NULL
                                     /\ x.customer.firstName # ""
                                     /\ x.email = NULL
                                     /\ x.shippingLines = <<>>
                                     /\ x.lineItems = <<>>
                                     /\ x.note # <<"H", "I">>}}

\* imports and direct calls of createTicket, one after the other; the
\* case-data query of replaceTokens may fail
NextTicket ==
  \/ ReceiveInvalidOf(1, TicketOrders) \/ ReceiveOrderOf(1, TicketOrders)
  \/ Step(1)
  \/ CallCreateTicket(1) \/ CtCommit(1) \/ FailTokens(1)

SpecTicket == Init /\ [][NextTicket]_vars

(***************************************************************************)
(* Ticket numbers: direct calls for two cases between imports.             *)
(***************************************************************************)

MessageNumbered == <<"No", "@@", "TICKET_NUMBER">>

NumberingOptions ==
  {[DefaultOptions(c, 7) EXCEPT !.message = MessageNumbered,
                                !.toAddress = <<"b@x.com">>] : c \in {Name1, Name2}}

\* the orders posted between these calls: both names, no line item
NumberingOrders ==
  {Parsed(o) : o \in {x \in Orders : /\ x.customer.present
                                     /\ x.customer.email # NULL
                                     /\ x.customer.firstName # ""
                                     /\ x.email = NULL
                                     /\ x.shippingLines = <<>>
                                     /\ x.lineItems = <<>>}}

NextNumbering ==
  \/ ReceiveInvalidOf(1, NumberingOrders) \/ ReceiveOrderOf(1, NumberingOrders)
  \/ Step(1)
  \/ CallCreateTicketOf(1, NumberingOptions, MaxNumbered)
  \/ CtCommit(1)

SpecNumbering == Init /\ [][NextNumbering]_vars

(***************************************************************************)
(* Statements of a direct call of createTicket are rejected.               *)
(***************************************************************************)

\* createTicket's catch with shouldCommit: txn.rollback() is issued
FailOwnTicket(r) ==
  /\ OneMoreFault
  /\ req[r].own
  /\ OnFailure(req[r].pc) = "commit"
  /\ req' = [req EXCEPT ![r].pc = "ctRollback",
                        ![r].failed = @ \cup {req[r].pc}]
  /\ UNCHANGED <<clock, db, nextId, client>>

\* the catch commits where it should roll back
CtRollbackCommits(r) ==
  /\ req[r].pc = "ctRollback"
  /\ db' = Committed(r)
  /\ req' = [req EXCEPT ![r].pc = "done", ![r].txn = "commit",
                        ![r].pend = EmptyTables, ![r].upd = {},
                        ![r].code = "THROWN"]
  /\ UNCHANGED <<clock, nextId, faults, client>>

\* txn.rollback() of createTicket's catch, then throw error
CtRollback(r) ==
  /\ req[r].pc = "ctRollback"
  /\ db' = RolledBack(r)
  /\ req' = [req EXCEPT ![r].pc = "done", ![r].txn = "rollback",
                        ![r].pend = EmptyTables, ![r].upd = {},
                        ![r].code = "THROWN"]
  /\ UNCHANGED <<clock, nextId, faults, client>>

\* the options of the direct calls while statements fail
OwnershipOptions ==
  {[DefaultOptions(Name1, 7) EXCEPT !.templateId = t] : t \in {0, 20}}

\* the orders posted between these calls: one order name, the e-mail
\* address and first name with the customer, no line item
OwnershipOrders ==
  {Parsed(o) : o \in {x \in Orders : /\ x.name = Name1
                                     /\ x.customer.present
                                     /\ x.customer.email # NULL
                                     /\ x.customer.firstName # ""
                                     /\ x.email = NULL
                                     /\ x.shippingLines = <<>>
                                     /\ x.lineItems = <<>>}}

\* imports and direct calls of createTicket, one after the other; any
\* statement may fail
NextOwnership ==
  \/ ReceiveInvalidOf(1, OwnershipOrders) \/ ReceiveOrderOf(1, OwnershipOrders)
  \/ Step(1) \/ Fail(1)
  \/ CallCreateTicketOf(1, OwnershipOptions, MaxTickets)
  \/ CtCommit(1) \/ FailOwnTicket(1) \/ CtRollback(1)

SpecOwnership == Init /\ [][NextOwnership]_vars

(***************************************************************************)
(* Direct calls whose message holds a token and a longer token that starts *)
(* with it.                                                                *)
(***************************************************************************)

MessageFax ==
  <<"Fax", "@@", "DOCTOR_FAX", "_EMAIL", "or", "@@", "DOCTOR_FAX">>
MessageStatus == <<"@@", "STATUS", "_GROUP", "of", "@@", "STATUS">>

TokenOptions ==
  {[DefaultOptions(Name1, 7) EXCEPT !.message = m] : m \in {MessageFax, MessageStatus}}

NextTokens ==
  \/ ReceiveInvalidOf(1, OwnershipOrders) \/ ReceiveOrderOf(1, OwnershipOrders)
  \/ Step(1)
  \/ CallCreateTicketOf(1, TokenOptions, MaxTickets)
  \/ CtCommit(1)

SpecTokens == Init /\ [][NextTokens]_vars

\* the same calls and imports, where the case's user may also have no
\* e-mail address on record
NextAddresses == NextTokens \/ CtUserEmailOf(1, {{LabUserNoEmail}})

SpecAddresses == Init /\ [][NextAddresses]_vars

\* one statement of a direct call of createTicket
TicketStep(r) ==
  \/ CtTemplate(r) \/ CtNumber(r) \/ CtTokens(r) \/ CtUserEmail(r)
  \/ CtStatus(r) \/ CtInsertTicket(r) \/ CtInsertDetail(r) \/ CtCommit(r)

\* the options of the calls in flight at the same time: one case, with or
\* without a template
ConcurrentOptions ==
  {[DefaultOptions(Name1, 7) EXCEPT !.message = MessageNumbered,
                                    !.templateId = t] : t \in {0, 20}}

\* direct calls of createTicket in flight at the same time, each in its
\* own transaction
NextNumberingConcurrent ==
  \E r \in Reqs :
    \/ CallCreateTicketOf(r, ConcurrentOptions, MaxNumbered)
    \/ TicketStep(r)

SpecNumberingConcurrent == Init /\ [][NextNumberingConcurrent]_vars

(***************************************************************************)
(* Properties of POST /cases/create-case.                                  *)
(***************************************************************************)

OrderNames == {Name1, Name2}

\* the handler of request r has sent its response
Finished(r) == req[r].pc = "done"

\* request r carried an order the extractor accepts
Accepted(r) ==
  /\ req[r].given.order /\ req[r].given.email
  /\ req[r].given.name /\ req[r].given.text

\* request r carried an order the extractor refuses
Refused(r) == req[r].given.order /\ ~Accepted(r)

CasesOf(tables, caseId) == {c \in tables.cases : c.caseId = caseId}
CaseTxnsOf(tables, caseId) == {t \in tables.caseTxns : t.caseId = caseId}
ItemsOf(tables, caseId) == {i \in tables.items : i.caseId = caseId}
TeethOf(tables, item) == {t \in tables.teeth : t.caseItemId = item.id}
TicketsOf(tables, caseId) == {t \in tables.tickets : t.caseId = caseId}
DetailsOf(tables, ticket) == {d \in tables.details : d.ticketId = ticket.id}

MsgAlreadyImported == <<"Case", "has", "already", "been", "imported">>

\* C1: with one request after the other, a finished request for an order
\* name not imported when it arrived answers 201, a finished request for a
\* name already imported answers 400 "Case has already been imported", and
\* in both cases the store then holds exactly one Case row of that caseId
C1_SequentialDuplicate ==
  Finished(1) /\ Accepted(1) =>
    LET id == req[1].cd.caseId IN
    /\ CasesOf(req[1].snap, id) = {} => req[1].status = 201
    /\ CasesOf(req[1].snap, id) # {} =>
         /\ req[1].status = 400
         /\ req[1].code = "CASE_ALREADY_EXISTS"
         /\ req[1].message = MsgAlreadyImported
    /\ Cardinality(CasesOf(db, id)) = 1

\* the second import of the first order name has been refused
C1_Witness ==
  /\ Finished(1) /\ Accepted(1)
  /\ req[1].cd.caseId = Name1
  /\ CasesOf(req[1].snap, Name1) # {}
  /\ req[1].message = MsgAlreadyImported
  /\ Cardinality(CasesOf(db, Name1)) = 1

\* C2: under concurrent requests no state holds two Case rows of one
\* caseId, and at most one request for an order name answers 201
C2_AtMostOnce ==
  \A id \in OrderNames :
    /\ Cardinality(CasesOf(db, id)) <= 1
    /\ Cardinality({r \in Reqs : /\ Finished(r) /\ req[r].status = 201
                                 /\ req[r].cd.caseId = id}) <= 1

\* C3: once a request has finished, whatever failed on its way, the store
\* holds as many Case rows as CaseTransaction rows of each caseId: a Case
\* row if and only if its opening CaseTransaction row
C3_CaseIffTransaction ==
  Finished(1) =>
    \A id \in OrderNames :
      /\ CasesOf(db, id) = {} <=> CaseTxnsOf(db, id) = {}
      /\ Cardinality(CasesOf(db, id)) = Cardinality(CaseTxnsOf(db, id))

\* insertCase succeeded, insertCaseTransaction failed, the request answered
\* 500 and the store holds neither row
C3_Witness ==
  /\ Finished(1) /\ req[1].status = 500
  /\ nextId.case = 2 /\ nextId.txn = 1
  /\ db.cases = {} /\ db.caseTxns = {}

\* C4: a finished request whose order the extractor refuses, or whose
\* order name was imported before it arrived, leaves every table as it was
\* when the request arrived
C4_RejectedLeavesTables ==
  /\ Finished(1) /\ Refused(1) => db = req[1].snap
  /\ Finished(1) /\ Accepted(1) /\ CasesOf(req[1].snap, req[1].cd.caseId) # {}
       => db = req[1].snap

\* an order without any e-mail address was refused while the store held an
\* imported case
C4_Witness ==
  /\ Finished(1) /\ req[1].given.order /\ ~req[1].given.email
  /\ req[1].status = 400
  /\ db.cases # {} /\ db.items # {} /\ db = req[1].snap

\* C5: a finished request whose order the extractor refuses, for any of the
\* three causes, answers with a 400-class status
C5_Validation400 ==
  Finished(1) /\ Refused(1) => req[1].status \in 400..499

\* C6: no request answers with its transaction neither committed nor
\* rolled back
C6_TransactionClosed ==
  Finished(1) => req[1].txn \in {"commit", "rollback"}

\* C7: a finished request in which a statement of line-item processing
\* failed (a CaseItem or CaseItemTooth insert, a statement of the fallback
\* createTicket, the review-flag update) and whose commit did not fail
\* answers 201, and the store holds the Case row and the CaseTransaction
\* row of its caseId
C7_LineItemFailureTolerated ==
  Finished(1) /\ req[1].fault5 /\ ~req[1].faultCommit =>
    /\ req[1].status = 201
    /\ CasesOf(db, req[1].cd.caseId) # {}
    /\ CaseTxnsOf(db, req[1].cd.caseId) # {}

\* the insert of a CaseItem failed, the SKU was given up, and the import
\* was committed without any CaseItem
C7_Witness ==
  /\ Finished(1) /\ req[1].fault5 /\ ~req[1].faultCommit
  /\ req[1].status = 201
  /\ AllSkus(req[1]) # <<>>
  /\ CasesOf(db, Name1) # {} /\ ItemsOf(db, Name1) = {}

\* C8: after the commit of an order in whose note and line items no SKU
\* was found, the store holds no CaseItem of the case and exactly one
\* Ticket of the case, of status "Open", whose detail names template 1363
C8_FallbackTicket ==
  /\ Finished(1) /\ req[1].status = 201
  /\ req[1].noteSkus = <<>> /\ req[1].lineItemSkus = <<>>
  => LET id == req[1].cd.caseId IN
     /\ ItemsOf(db, id) = {}
     /\ Cardinality(TicketsOf(db, id)) = 1
     /\ \A t \in TicketsOf(db, id) :
          /\ t.status = "Open"
          /\ Cardinality(DetailsOf(db, t)) = 1
          /\ \A d \in DetailsOf(db, t) : d.templateId = 1363

\* an order with a plain note and no line item was imported and its
\* fallback ticket committed
C8_Witness ==
  /\ Finished(1) /\ req[1].status = 201
  /\ req[1].noteSkus = <<>> /\ req[1].lineItemSkus = <<>>
  /\ \E t \in TicketsOf(db, req[1].cd.caseId) :
       t.status = "Open" /\ DetailsOf(db, t) # {}

ProductR33330 == <<"R", "3", "3", "3", "3", "0", ".", "1">>

\* C9: every CaseItem written for the SKU "--A1-UL-R33330.1--" has the
\* product "R33330.1", the tooth location "Upper, Lower" and the quantity
\* 2, and exactly two CaseItemTooth rows, "Upper" and "Lower"
C9_DecodeUpperLower ==
  \A i \in db.items :
    i.sku = SkuUL =>
      /\ i.name = ProductR33330
      /\ i.tooth = <<"Upper", ", ", "Lower">>
      /\ i.qty = 2
      /\ {t.itemTooth : t \in TeethOf(db, i)} = {"Upper", "Lower"}
      /\ Cardinality(TeethOf(db, i)) = 2

\* C10: every Case row is required by its received day plus 7 when it is
\* rush and plus 14 when it is not, and its estimated return is its
\* received day plus 14 either way
C10_RushDates ==
  \A c \in db.cases :
    /\ c.isRush = 1 => c.requiredBy = c.received + 7
    /\ c.isRush = 0 => c.requiredBy = c.received + 14
    /\ c.isRush \in {0, 1}
    /\ c.estimatedReturn = c.received + 14

\* a rush case and a case that is not rush have both been imported, one of
\* them after the first day
C10_Witness ==
  /\ \E c \in db.cases : c.isRush = 1
  /\ \E c \in db.cases : c.isRush = 0
  /\ \E c \in db.cases : c.received > 0

(***************************************************************************)
(* Properties of createTicket and replaceTokens.                           *)
(***************************************************************************)

\* the direct call of createTicket has returned
Returned(r) == req[r].own /\ req[r].pc = "done" /\ req[r].code = "RETURNED"

\* the case_ticket_detail row the direct call wrote
DetailOf(r) == {d \in db.details : d.id = req[r].tk.detailId}

\* the default, then the option, with ";" between the two when both are there
DefaultThenOption(default, option) ==
  IF default = <<>> THEN option
  ELSE IF option = <<>> THEN default
  ELSE default \o <<";">> \o option

OptionElseDefault(option, default) == IF option # <<>> THEN option ELSE default

\* C11: when the template of a createTicket call exists, the to, cc and
\* bcc addresses stored on the ticket detail are the template default
\* followed by the option, joined by ";", an empty part left out; the
\* subject, the message and the from address the call goes on with are the
\* option when it is given and the template default otherwise
C11_AddressMerge ==
  req[1].own /\ req[1].tk.rows # {} =>
    \A t \in req[1].tk.rows :
      LET o == req[1].tk.o
          m == req[1].tk.merged
          to == DefaultThenOption(t.Default_to_Address, o.toAddress)
      IN /\ m.subject = OptionElseDefault(o.subject, t.subject)
         /\ m.message = OptionElseDefault(o.message, t.message)
         /\ m.fromAddress = OptionElseDefault(o.fromAddress, t.Default_From_Address)
         /\ m.toAddress = to
         /\ Returned(1) =>
              \A d \in DetailOf(1) :
                /\ to # <<>> => d.toAddress = to
                /\ d.ccAddress = DefaultThenOption(t.Default_CC_Address, o.ccAddress)
                /\ d.bccAddress =
                     DefaultThenOption(t.Default_BCC_Address, o.bccAddress)
                /\ m.fromAddress # <<>> => d.fromAddress = m.fromAddress

\* a call with the to address "b@x.com" and the template whose default is
\* "a@x.com" stored "a@x.com;b@x.com"
C11_Witness ==
  /\ Returned(1) /\ req[1].tk.rows = {Template20}
  /\ req[1].tk.o.toAddress = <<"b@x.com">>
  /\ \E d \in DetailOf(1) :
       /\ d.toAddress = <<"a@x.com", ";", "b@x.com">>
       /\ d.ccAddress = <<"d@x.com">>
       /\ d.bccAddress = <<"f@x.com", ";", "e@x.com">>

\* C12: a createTicket call with a non-empty overrideSubject stores that
\* text as the subject, and one with a non-empty overrideMessage stores
\* that text as the message, each with its "@@" tokens as given, whatever
\* the template, the subject and message options and the case are
C12_OverridesVerbatim ==
  Returned(1) =>
    \A d \in DetailOf(1) :
      /\ req[1].tk.o.overrideSubject # <<>> =>
           d.subject = req[1].tk.o.overrideSubject
      /\ req[1].tk.o.overrideMessage # <<>> =>
           d.message = req[1].tk.o.overrideMessage

\* on an imported case, a call with a template, a subject option and the
\* overrides stored the override texts, tokens unresolved
C12_Witness ==
  /\ Returned(1) /\ req[1].tk.rows # {} /\ req[1].tk.o.subject # <<>>
  /\ CasesOf(db, Name1) # {}
  /\ \E d \in DetailOf(1) :
       /\ d.subject = <<"Re", "@@", "CASE_ID">>
       /\ d.message = <<"See", "@@", "CASE_ID", "@@", "TICKET_NUMBER">>

\* the text holds the marker "@@"
HasMarker(text) == \E i \in 1..Len(text) : text[i] = "@@"

\* createTicket is past its four calls of replaceTokens
PastTokens(r) ==
  \/ req[r].pc \in {"ctEmail", "ctStatus", "ctInsTicket", "ctInsDetail", "ctCommit"}
  \/ Returned(r)

\* C13: replaceTokens issues its case-data query only for a text that
\* holds "@@", so the queries of one createTicket call are as many as its
\* texts with "@@"; a non-empty text without "@@" comes back unchanged
C13_NoMarkerNoQuery ==
  /\ req[1].pc = "ctTokens" =>
       HasMarker(req[1].tk.td[TokenFields[req[1].tk.field]])
  /\ PastTokens(1) =>
       req[1].tk.queries =
         Cardinality({k \in 1..Len(TokenFields) :
                        HasMarker(req[1].tk.merged[TokenFields[k]])})
  /\ req[1].pc \in {"ctEmail", "ctStatus"} =>
       \A k \in 1..Len(TokenFields) :
         LET text == req[1].tk.merged[TokenFields[k]] IN
         text # <<>> /\ ~HasMarker(text) => req[1].tk.td[TokenFields[k]] = text

\* a call whose message was "Hello world" and whose subject held a token
\* issued one query and stored "Hello world"
C13_Witness ==
  /\ Returned(1) /\ req[1].tk.queries = 1
  /\ req[1].tk.merged.message = <<"Hello", "world">>
  /\ HasMarker(req[1].tk.merged.subject)
  /\ \E d \in DetailOf(1) : d.message = <<"Hello", "world">>

\* C14: when the case-data query of replaceTokens failed or found no row
\* for a text, createTicket goes on with that text as it was: the call
\* returns, and its ticket and detail are stored with the text unresolved
\* (unless an override replaces the subject or the message)
C14_TokensNeverRaise ==
  /\ req[1].pc \in {"ctEmail", "ctStatus"} =>
       \A f \in req[1].tk.unres : req[1].tk.td[f] = req[1].tk.merged[f]
  /\ req[1].own /\ Finished(1) /\ req[1].tk.unres # {} =>
       /\ req[1].code = "RETURNED"
       /\ \E t \in db.tickets : t.id = req[1].tk.ticketId
       /\ DetailOf(1) # {}
       /\ \A d \in DetailOf(1) :
            /\ "subject" \in req[1].tk.unres /\ req[1].tk.o.overrideSubject = <<>>
                 => d.subject = req[1].tk.merged.subject
            /\ "message" \in req[1].tk.unres /\ req[1].tk.o.overrideMessage = <<>>
                 => d.message = req[1].tk.merged.message

\* on an imported case the query for the subject failed, and the ticket
\* is stored with the subject's token unresolved
C14_Witness ==
  /\ Returned(1) /\ req[1].tk.unres = {"subject"}
  /\ req[1].tk.o.overrideSubject = <<>>
  /\ faults > 0 /\ CasesOf(db, Name1) # {}
  /\ \E d \in DetailOf(1) : d.subject = <<"Case", "@@", "CASE_ID">>

(***************************************************************************)
(* Properties of processOrderLineItems and processEncodedSku.              *)
(***************************************************************************)

\* the fallback tickets of the case: status "Open", template 1363
FallbackTicketsOf(tables, caseId) ==
  {t \in TicketsOf(tables, caseId) :
     /\ t.status = "Open"
     /\ \E d \in DetailsOf(tables, t) : d.templateId = 1363}

\* the SKUs request r gathered from the note and from the line items
GatheredSkus(r) == req[r].noteSkus \o req[r].lineItemSkus

\* C15: a committed import none of whose gathered SKUs splits into three
\* fields has the fallback ticket and no CaseItem, so that every committed
\* import has a CaseItem or the fallback ticket
C15_ItemOrFallback ==
  Finished(1) /\ req[1].status = 201 =>
    LET id == req[1].cd.caseId IN
    /\ (\A k \in 1..Len(GatheredSkus(1)) : Len(SkuParts(GatheredSkus(1)[k])) < 3)
         => ItemsOf(db, id) = {} /\ FallbackTicketsOf(db, id) # {}
    /\ ItemsOf(db, id) # {} \/ FallbackTicketsOf(db, id) # {}

\* C16: every committed import whose review-flag update did not itself
\* fail leaves the Case with RXInstructionsReviewed 'Y',
\* ItemTeethShadeReviewed 'Y' and CaseType 1, on the path of the decoded
\* items and on the path of the fallback ticket, also when a SKU or the
\* fallback ticket failed
C16_ReviewFlags ==
  Finished(1) /\ req[1].status = 201 /\ "update" \notin req[1].failed =>
    \A c \in CasesOf(db, req[1].cd.caseId) :
      c.rxReviewed = "Y" /\ c.shadeReviewed = "Y" /\ c.caseType = 1

\* C17: in a committed import, every gathered SKU that splits into three
\* fields and whose own CaseItem insert did not fail has its CaseItem row,
\* whatever happened to the SKUs before it (malformed, or a failed
\* CaseItem or CaseItemTooth insert) and to its own tooth inserts
C17_PerSkuIsolation ==
  Finished(1) /\ req[1].status = 201 =>
    \A j \in 1..Len(GatheredSkus(1)) :
      LET sku == GatheredSkus(1)[j] IN
      Len(SkuParts(sku)) >= 3 /\ <<j, "insItem">> \notin req[1].failedSkus
      => \E i \in ItemsOf(db, req[1].cd.caseId) : i.sku = sku

\* the CaseItem insert of the first of two SKUs failed and the second SKU
\* has its CaseItem row
C17_Witness ==
  /\ Finished(1) /\ req[1].status = 201
  /\ req[1].failedSkus = {<<1, "insItem">>}
  /\ Len(GatheredSkus(1)) = 2
  /\ {i.sku : i \in ItemsOf(db, req[1].cd.caseId)} = {GatheredSkus(1)[2]}

\* the tooth rows the stored location of a CaseItem row calls for
TeethCalledFor(item) ==
  (IF Includes(item.tooth, <<"Upper">>) THEN {"Upper"} ELSE {})
  \cup (IF Includes(item.tooth, <<"Lower">>) THEN {"Lower"} ELSE {})

\* C18: when no statement fails, a committed import has exactly one
\* CaseItem row for each gathered SKU that splits into three fields and no
\* other; an item has the tooth row "Upper" exactly when its stored
\* location contains "Upper" and the row "Lower" exactly when it contains
\* "Lower" (one row for U, one for L, two for UL and LU, none for another
\* code); at all times every committed tooth row belongs to a committed
\* CaseItem row
C18_ItemAndToothRows ==
  /\ \A t \in db.teeth : \E i \in db.items : i.id = t.caseItemId
  /\ Finished(1) /\ req[1].status = 201 =>
       LET items == ItemsOf(db, req[1].cd.caseId)
           skus == GatheredSkus(1)
           decoded == {j \in 1..Len(skus) : Len(SkuParts(skus[j])) >= 3}
       IN /\ Cardinality(items) = Cardinality(decoded)
          /\ \A j \in decoded :
               Cardinality({i \in items : i.sku = skus[j]}) = 1
          /\ \A i \in items :
               /\ {t.itemTooth : t \in TeethOf(db, i)} = TeethCalledFor(i)
               /\ Cardinality(TeethOf(db, i)) =
                    LET code == ToUpperCase(SkuParts(i.sku)[2]) IN
                    CASE code \in {<<"U">>, <<"L">>} -> 1
                      [] code \in {<<"U", "L">>, <<"L", "U">>} -> 2
                      [] OTHER -> 0

\* an import of the SKUs with the codes U, Lu and X is committed: the first
\* item has one tooth row, the second two, the third none
C18_Witness ==
  /\ Finished(1) /\ req[1].status = 201
  /\ req[1].lineItemSkus = <<SkuU, SkuLU, SkuOther>>
  /\ \E i \in ItemsOf(db, req[1].cd.caseId) :
       i.sku = SkuU /\ Cardinality(TeethOf(db, i)) = 1
  /\ \E i \in ItemsOf(db, req[1].cd.caseId) :
       i.sku = SkuLU /\ Cardinality(TeethOf(db, i)) = 2
  /\ \E i \in ItemsOf(db, req[1].cd.caseId) :
       i.sku = SkuOther /\ TeethOf(db, i) = {}

\* the spellings of the upper/lower codes
CodesU == {<<"U">>, <<"u">>}
CodesL == {<<"L">>, <<"l">>}
CodesBoth ==
  {<<a, b>> : a \in {"U", "u"}, b \in {"L", "l"}}
  \cup {<<b, a>> : a \in {"U", "u"}, b \in {"L", "l"}}

\* the upper/lower code of a stored CaseItem row's SKU
CodeOf(item) == SkuParts(item.sku)[2]

\* C19: every stored CaseItem row has the location and quantity of its
\* SKU's upper/lower code, whatever the code's case: U gives "Upper" and 1,
\* L gives "Lower" and 1, UL and LU give "Upper, Lower" and 2, any other
\* code gives the empty location and 1; and a committed import without
\* failures has a CaseItem row for a SKU with another code
C19_CodeMapping ==
  /\ \A i \in db.items :
       LET code == CodeOf(i) IN
       CASE code \in CodesU -> i.tooth = <<"Upper">> /\ i.qty = 1
         [] code \in CodesL -> i.tooth = <<"Lower">> /\ i.qty = 1
         [] code \in CodesBoth ->
              i.tooth = <<"Upper", ", ", "Lower">> /\ i.qty = 2
         [] OTHER -> i.tooth = <<>> /\ i.qty = 1
  /\ Finished(1) /\ req[1].status = 201 =>
       \A j \in 1..Len(GatheredSkus(1)) :
         GatheredSkus(1)[j] = SkuOther =>
           \E i \in ItemsOf(db, req[1].cd.caseId) : i.sku = SkuOther

\* rows are stored for a lower-case code, a mixed-case code and a code that
\* is none of U, L, UL, LU
C19_Witness ==
  /\ \E i \in db.items : CodeOf(i) = <<"l">> /\ i.tooth = <<"Lower">>
  /\ \E i \in db.items : CodeOf(i) = <<"L", "u">> /\ i.qty = 2
  /\ \E i \in db.items : CodeOf(i) = <<"X">> /\ i.tooth = <<>> /\ i.qty = 1

\* the shade segment S of an encoded SKU --P-C-S--, as it is written
ShadeSegment(sku) == Split(RemoveAll(sku, <<"-", "-">>), "-")[3]

\* the character that stands for a dot while the SKU is split
Sentinel == "~"

HasSentinel(text) == \E k \in 1..Len(text) : text[k] = Sentinel

\* C20: every stored CaseItem row has the shade segment of its SKU, dots
\* included, as its shade; no stored field of the row contains the
\* sentinel; and its SKU splits into the three fields and no more
C20_ShadeRoundTrip ==
  \A i \in db.items :
    /\ i.shade = ShadeSegment(i.sku)
    /\ ~HasSentinel(i.name) /\ ~HasSentinel(i.shade)
    /\ Len(SkuParts(i.sku)) = 3

RushWord == <<"R", "U", "S", "H">>

\* C21: the isRush flag extracted from an accepted order is true exactly
\* when a line item, at whatever position, has the SKU R3333 or a SKU that
\* contains RUSH, or a shipping line, at whatever position, has RUSH in its
\* code or in its title
C21_RushDetection ==
  Accepted(1) /\ req[1].pc # "idle" /\ req[1].err = <<>> =>
    LET g == req[1].lists IN
    req[1].cd.isRush <=>
      \/ \E i \in 1..Len(g.skus) :
           g.skus[i] = <<"R", "3", "3", "3", "3">> \/ Includes(g.skus[i], RushWord)
      \/ \E i \in 1..Len(g.shippingLines) :
           \/ Includes(g.shippingLines[i].code, RushWord)
           \/ Includes(g.shippingLines[i].title, RushWord)

\* an order is imported as rush whose only rush item is its last line item
\* and whose first shipping line is not a rush line
C21_Witness ==
  /\ Finished(1) /\ req[1].status = 201 /\ req[1].cd.isRush
  /\ req[1].lists.skus = <<ItemPlain.sku, ItemRushWord.sku>>
  /\ req[1].lists.shippingLines = <<LinePlain>>

\* C22: with one createTicket after the other, the committed tickets of a
\* case carry exactly the numbers 1..n, n the number of its tickets,
\* whatever tickets other cases have; and a call that returned for an
\* existing case has put "{caseId}-{n}-1", n the number of its ticket and
\* the highest of the case, where its message had @@TICKET_NUMBER
C22_SequentialNumbers ==
  /\ \A id \in OrderNames :
       {t.ticketNumber : t \in TicketsOf(db, id)}
         = 1..Cardinality(TicketsOf(db, id))
  /\ Returned(1) /\ CasesOf(db, req[1].tk.o.caseId) # {} =>
       \A d \in DetailOf(1) : \A t \in db.tickets :
         t.id = d.ticketId =>
           /\ t.caseId = req[1].tk.o.caseId
           /\ t.ticketNumber = Cardinality(TicketsOf(db, t.caseId))
           /\ req[1].tk.o.message = <<"No", "@@", "TICKET_NUMBER">> =>
                d.message =
                  <<"No", t.caseId, "-", ToString(t.ticketNumber), "-", "1">>

\* a call returned with the second ticket of the first case, written as
\* "{caseId}-2-1" in its message, while the other case has a ticket
C22_Witness ==
  /\ Returned(1) /\ req[1].tk.o.caseId = Name1
  /\ Cardinality(TicketsOf(db, Name1)) = 2
  /\ TicketsOf(db, Name2) # {}
  /\ \E d \in DetailOf(1) : d.message = <<"No", Name1, "-", "2", "-", "1">>

\* C23: with createTicket calls in flight at the same time, each in its
\* own transaction, no two committed tickets of one case carry the same
\* number
C23_UniqueNumbers ==
  \A t, u \in db.tickets :
    t.caseId = u.caseId /\ t.ticketNumber = u.ticketNumber => t = u

\* C24: every committed case_ticket row has exactly one
\* case_ticket_detail row, with detail number 1 and the action "Email",
\* also when a statement of createTicket fails inside the import's
\* transaction
C24_TicketHasDetail ==
  \A t \in db.tickets :
    /\ Cardinality(DetailsOf(db, t)) = 1
    /\ \A d \in DetailsOf(db, t) : d.detailNumber = 1 /\ d.action = "Email"

\* the statements of createTicket whose rejection reaches its catch
TicketStatements ==
  {"ctTemplate", "ctNumber", "ctEmail", "ctStatus", "ctInsTicket", "ctInsDetail"}

LogsOf(tables, detail) == {l \in tables.logs : l.detailId = detail.id}

\* C26: after a createTicket call has returned, the assignment log holds
\* exactly one row for the new detail, and it names the detail's assignee
C26_AssignmentLogged ==
  Returned(1) =>
    \A d \in DetailOf(1) :
      /\ Cardinality(LogsOf(db, d)) = 1
      /\ \A l \in LogsOf(db, d) : l.assignedTo = d.assignedTo

\* the entries of the table whose token stands at position i of the text
MatchingAt(text, table, i) ==
  {k \in 1..Len(table) : OccursAt(text, table[k][1], i)}

\* every token of the text replaced by its own value: where several tokens
\* match, the one that is written there in full, the longest
RECURSIVE OwnValues(_, _, _)
OwnValues(text, table, i) ==
  IF i > Len(text) THEN <<>>
  ELSE LET ks == MatchingAt(text, table, i) IN
    IF ks = {} THEN <<text[i]>> \o OwnValues(text, table, i + 1)
    ELSE LET k == CHOOSE x \in ks :
                    \A y \in ks : Len(table[y][1]) <= Len(table[x][1])
         IN table[k][2] \o OwnValues(text, table, i + Len(table[k][1]))

\* C27: the message a createTicket call stored for an existing case is its
\* message with every token replaced by that token's own value, also where
\* a shorter token is the beginning of the token written
C27_TokensOwnValues ==
  Returned(1) /\ CasesOf(db, req[1].tk.o.caseId) # {} =>
    \A d \in DetailOf(1) : \A c \in CasesOf(db, req[1].tk.o.caseId) :
      d.message =
        OwnValues(req[1].tk.merged.message,
                  TokenTable(c, c.caseId, TicketNoDisplay(c.caseId, req[1].tk.no)),
                  1)

\* C28: every committed case_ticket_detail row has a from address and a
\* to address that are not empty
C28_AddressesNotEmpty ==
  \A d \in db.details : d.fromAddress # <<>> /\ d.toAddress # <<>>

\* ---------------------------------------------------------------------
\* The order-source client (utils/shopifyClient.js)
\* ---------------------------------------------------------------------

\* no call stands between its slot check and its increment: a timer or a
\* socket event is a task of its own, and the continuations that are pending
\* run before the next task starts
NoContinuationPending == \A c \in Callers : call[c].pc # "passed"

\* executeGraphQLQuery is called and runs to its first await: the loop
\* condition of waitForConcurrentSlot is evaluated, and the call either
\* sleeps 100 ms or resumes after the await, where another call made in the
\* same turn runs first
CallExecute(c) ==
  /\ call[c].pc = "idle"
  /\ call' = [call EXCEPT ![c].pc =
                IF activeRequests >= maxConcurrentRequests
                  THEN "sleeping" ELSE "passed"]
  /\ UNCHANGED <<server, activeRequests>>

\* activeRequests++ after await waitForConcurrentSlot(); the call then waits
\* in waitForRateLimit
AcquireSlot(c) ==
  /\ call[c].pc = "passed"
  /\ activeRequests' = activeRequests + 1
  /\ call' = [call EXCEPT ![c].pc = "rate", ![c].incremented = @ + 1]
  /\ UNCHANGED server

\* the 100 ms timer of waitForConcurrentSlot fires: the loop condition is
\* evaluated again, and when it is false the increment follows in the same
\* task
SlotTimer(c) ==
  /\ call[c].pc = "sleeping"
  /\ NoContinuationPending
  /\ IF activeRequests >= maxConcurrentRequests
       THEN UNCHANGED client
       ELSE /\ activeRequests' = activeRequests + 1
            /\ call' = [call EXCEPT ![c].pc = "rate", ![c].incremented = @ + 1]
  /\ UNCHANGED server

\* after waitForRateLimit the credentials are read: without them the call
\* throws and the outer catch decrements; with them the request is written
SendRequest(c) ==
  /\ call[c].pc = "rate"
  /\ \E credentials \in BOOLEAN :
       IF credentials
         THEN /\ call' = [call EXCEPT ![c].pc = "inflight"]
              /\ UNCHANGED activeRequests
         ELSE /\ activeRequests' = activeRequests - 1
              /\ call' = [call EXCEPT ![c].pc = "rejected",
                                      ![c].decremented = @ + 1]
  /\ UNCHANGED server

\* the kinds of response body: data, GraphQL errors, or text that JSON.parse
\* throws on
Bodies == {"data", "errors", "unparsable"}

\* the response's end handler: it decrements, parses the body, and the catch
\* around the parsing decrements again
ResponseEnd(c) ==
  /\ call[c].pc = "inflight"
  /\ NoContinuationPending
  /\ \E body \in Bodies :
       LET times == IF body = "unparsable" THEN 2 ELSE 1 IN
       /\ activeRequests' = activeRequests - times
       /\ call' = [call EXCEPT
                     ![c].pc = IF body = "data" THEN "resolved" ELSE "rejected",
                     ![c].decremented = @ + times]
  /\ UNCHANGED server

\* the request's error handler
RequestError(c) ==
  /\ call[c].pc = "inflight"
  /\ NoContinuationPending
  /\ activeRequests' = activeRequests - 1
  /\ call' = [call EXCEPT ![c].pc = "rejected", ![c].decremented = @ + 1]
  /\ UNCHANGED server

NextClient ==
  \E c \in Callers :
    \/ CallExecute(c)
    \/ AcquireSlot(c)
    \/ SlotTimer(c)
    \/ SendRequest(c)
    \/ ResponseEnd(c)
    \/ RequestError(c)

SpecClient == Init /\ [][NextClient]_vars

\* the calls that hold a slot: incremented and not yet settled
InFlight == {c \in Callers : call[c].pc \in {"rate", "inflight"}}

\* the calls that have settled
Settled == {c \in Callers : call[c].pc \in {"resolved", "rejected"}}

\* C29: whatever the number of calls of executeGraphQLQuery and however their
\* awaits interleave, the activeRequests counter never exceeds
\* maxConcurrentRequests
C29_BoundedConcurrency ==
  activeRequests <= maxConcurrentRequests

\* C30: every settled call of executeGraphQLQuery has incremented
\* activeRequests once and decremented it once, whatever its outcome; the
\* counter is never negative and is 0 whenever no call holds a slot
C30_CounterBalanced ==
  /\ \A c \in Settled : call[c].incremented = 1 /\ call[c].decremented = 1
  /\ activeRequests >= 0
  /\ InFlight = {} => activeRequests = 0

====
